---- MODULE Spec2Model ----
(***************************************************************************)
(* A model of python-newick: the Node tree entity (newick/node.py) and the *)
(* NewickParser / TreeList (newick/parse.py).                              *)
(*                                                                         *)
(* Nodes live in a heap.  A Python list is an object of its own: a node's  *)
(* `descendants` attribute is a reference to a list, so two nodes can hold  *)
(* the same list (remove_redundant_nodes assigns one node's list to        *)
(* another node).  Node identities are 1, 2, ... in order of creation;      *)
(* the list created by Node.__init__ of node i is list i.                  *)
(***************************************************************************)
EXTENDS Integers, Sequences, FiniteSets, TLC

VARIABLES heap, root, pc, err, op, pre, out, calls, it, text, forest, dumped, again

vars == <<heap, root, pc, err, op, pre, out, calls, it, text, forest, dumped, again>>

\* The variables of the parser's runs.
parseVars == <<text, forest, dumped, again>>

(***************************************************************************)
(* Bounds of the model.                                                    *)
(***************************************************************************)
\* The nodes of a built tree.
MaxNodes == 5

\* The characters of an enumerated text.
MaxText == 5

\* The calls made on a tree in SpecSeq.
MaxCalls == 2

\* The largest length, in units of 1.0, remove_redundant_nodes may reach.
MaxLength == 12

(***************************************************************************)
(* Python values.                                                          *)
(***************************************************************************)
\* None, as the value of Node.ancestor (node identities start at 1).
None == 0

\* None, as the value of Node.length (lengths are never negative).
NoLength == -1

\* None, as the value of Node.name and Node.comment (a text is a sequence
\* of characters; the parser never stores an empty text, it stores None).
NoText == <<>>

\* No exception raised.
OK == "ok"

Range(s) == {s[i] : i \in 1..Len(s)}

EmptyHeap == [n |-> <<>>, l |-> <<>>]

(***************************************************************************)
(* class Node                                                              *)
(***************************************************************************)
\* Node.__init__: a new node with its own empty list and no ancestor.
Node(H, name, length, comment) ==
    [n |-> Append(H.n, [name |-> name, length |-> length, comment |-> comment,
                         descendants |-> Len(H.l) + 1, ancestor |-> None]),
     l |-> Append(H.l, <<>>)]

\* The identity of the node the last Node(...) call created.
Last(H) == Len(H.n)

\* node.descendants, the list the attribute refers to.
Desc(H, n) == H.l[H.n[n].descendants]

\* Assignment to the elements of the list node.descendants refers to.
SetDesc(H, n, lst) == [H EXCEPT !.l[H.n[n].descendants] = lst]

\* self.add_descendant(node)
add_descendant(H, self, node) ==
    LET H1 == [H EXCEPT !.n[node].ancestor = self]
    IN  SetDesc(H1, self, Append(Desc(H1, self), node))

is_leaf(H, n) == Desc(H, n) = <<>>

\* Node.walk(), default mode: the node itself, then each descendant's walk.
RECURSIVE walk(_, _)
RECURSIVE WalkEach(_, _, _)
WalkEach(H, lst, i) ==
    IF i > Len(lst) THEN <<>> ELSE walk(H, lst[i]) \o WalkEach(H, lst, i + 1)

walk(H, self) == <<self>> \o WalkEach(H, Desc(H, self), 1)

\* The loop of _postorder with pop() for pop(0).
RECURSIVE PostorderLoopPopLast(_, _, _)
PostorderLoopPopLast(stack, dmap, yielded) ==
    IF stack = <<>> THEN yielded
    ELSE LET node == stack[Len(stack)]
             descendants == dmap[node]
         IN  IF descendants = <<>>
             THEN LET popped == SubSeq(stack, 1, Len(stack) - 1)
                  IN  PostorderLoopPopLast(
                          popped,
                          IF popped # <<>>
                          THEN [dmap EXCEPT ![popped[Len(popped)]] =
                                               SubSeq(@, 1, Len(@) - 1)]
                          ELSE dmap,
                          Append(yielded, node))
             ELSE PostorderLoopPopLast(Append(stack, descendants[1]), dmap, yielded)

\* The while loop of Node._postorder over the stack and the descendant_map.
RECURSIVE PostorderLoop(_, _, _)
PostorderLoop(stack, dmap, yielded) ==
    IF stack = <<>> THEN yielded
    ELSE LET node == stack[Len(stack)]
             descendants == dmap[node]
         IN  IF descendants = <<>>
             THEN LET popped == SubSeq(stack, 1, Len(stack) - 1)
                  IN  PostorderLoop(
                          popped,
                          IF popped # <<>>
                          THEN [dmap EXCEPT ![popped[Len(popped)]] = Tail(@)]
                          ELSE dmap,
                          Append(yielded, node))
             ELSE PostorderLoop(Append(stack, descendants[1]), dmap, yielded)

\* Node._postorder: the map copies every list of the subtree when the
\* generator starts, so the order is that of the tree at that moment.
_postorder(H, self) ==
    PostorderLoop(<<self>>,
                  [x \in Range(walk(H, self)) |-> Desc(H, x)],
                  <<>>)

\* Node.walk(mode)
walk_mode(H, self, mode) ==
    IF mode = "postorder" THEN _postorder(H, self) ELSE walk(H, self)

\* Node.get_leaves
get_leaves(H, self) == SelectSeq(walk(H, self), LAMBDA x : is_leaf(H, x))

\* list.remove(x): the list without the first element equal to x.
RECURSIVE ListRemove(_, _)
ListRemove(lst, x) ==
    IF lst = <<>> THEN <<>>
    ELSE IF lst[1] = x THEN Tail(lst)
    ELSE <<lst[1]>> \o ListRemove(Tail(lst), x)

\* The predicate of prune without `and n.ancestor`.
PrunePredicateNoAncestor(H, n, leaves, inverse) ==
    \/ (~inverse /\ n \in leaves)
    \/ (inverse /\ is_leaf(H, n) /\ n \notin leaves)

\* The predicate Node.prune gives to visit.
PrunePredicate(H, n, leaves, inverse) ==
    /\ \/ (~inverse /\ n \in leaves)
       \/ (inverse /\ is_leaf(H, n) /\ n \notin leaves)
    /\ H.n[n].ancestor # None

\* The visitor of prune with pop(0) for remove(n).
PruneVisitorPopFirst(H, n) ==
    LET a == H.n[n].ancestor
    IN  IF a = None THEN [H |-> H, err |-> "AttributeError"]
        ELSE IF Desc(H, a) = <<>> THEN [H |-> H, err |-> "IndexError"]
        ELSE [H |-> SetDesc(H, a, Tail(Desc(H, a))), err |-> OK]

\* The visitor Node.prune gives to visit: n.ancestor.descendants.remove(n).
PruneVisitor(H, n) ==
    LET a == H.n[n].ancestor
    IN  IF a = None THEN [H |-> H, err |-> "AttributeError"]
        ELSE IF n \notin Range(Desc(H, a)) THEN [H |-> H, err |-> "ValueError"]
        ELSE [H |-> SetDesc(H, a, ListRemove(Desc(H, a), n)), err |-> OK]

\* Node.visit driven by the post-order walk, as Node.prune calls it: the
\* predicate and the visitor run on the tree as it is when a node is yielded.
RECURSIVE PruneVisit(_, _, _, _, _)
PruneVisit(H, order, i, leaves, inverse) ==
    IF i > Len(order) THEN [H |-> H, err |-> OK]
    ELSE IF PrunePredicate(H, order[i], leaves, inverse)
         THEN LET r == PruneVisitor(H, order[i])
              IN  IF r.err # OK THEN r
                  ELSE PruneVisit(r.H, order, i + 1, leaves, inverse)
         ELSE PruneVisit(H, order, i + 1, leaves, inverse)

\* Node.prune(leaves, inverse)
prune(H, self, leaves, inverse) ==
    PruneVisit(H, _postorder(H, self), 1, leaves, inverse)

\* Node.prune_by_names(leaf_names, inverse)
prune_by_names(H, self, leaf_names, inverse) ==
    prune(H, self,
          {x \in Range(walk(H, self)) : H.n[x].name \in leaf_names},
          inverse)

\* The while loop of _resolve_polytomies: new.add_descendant(n.descendants.pop())
RECURSIVE ResolvePop(_, _, _)
ResolvePop(H, n, new) ==
    IF Len(Desc(H, n)) > 1
    THEN LET lst == Desc(H, n)
             last == lst[Len(lst)]
             H1 == SetDesc(H, n, SubSeq(lst, 1, Len(lst) - 1))
         IN  ResolvePop(add_descendant(H1, new, last), n, new)
    ELSE H

\* _resolve_polytomies(n): the new node is appended to n.descendants
\* (list.append, not add_descendant).
resolve_node(H, n) ==
    LET H1 == Node(H, NoText, 0, NoText)
        new == Last(H1)
        H2 == ResolvePop(H1, n, new)
    IN  SetDesc(H2, n, Append(Desc(H2, n), new))

\* The predicate Node.resolve_polytomies gives to visit.
ResolvePredicate(H, n) == Len(Desc(H, n)) > 2

\* Node.visit driven by the default walk, as Node.resolve_polytomies calls
\* it.  walk is a generator: the visitor runs on a node when it is yielded,
\* before the walk reads that node's descendants.
RECURSIVE ResolveVisit(_, _)
RECURSIVE ResolveEach(_, _, _)
ResolveEach(H, n, i) ==
    IF i > Len(Desc(H, n)) THEN H
    ELSE ResolveEach(ResolveVisit(H, Desc(H, n)[i]), n, i + 1)

ResolveVisit(H, n) ==
    ResolveEach(IF ResolvePredicate(H, n) THEN resolve_node(H, n) ELSE H, n, 1)

\* resolve_polytomies over list(self.walk()): the nodes of the tree as it
\* was when the call started.
RECURSIVE ResolveSnapshot(_, _, _)
ResolveSnapshot(H, order, i) ==
    IF i > Len(order) THEN H
    ELSE ResolveSnapshot(IF ResolvePredicate(H, order[i])
                         THEN resolve_node(H, order[i]) ELSE H,
                         order, i + 1)

resolve_polytomies_snapshot(H, self) == ResolveSnapshot(H, walk(H, self), 1)

\* Node.resolve_polytomies
resolve_polytomies(H, self) == ResolveVisit(H, self)

\* The loop of remove_redundant_nodes over enumerate(grandfather.descendants):
\* `del` while iterating, so the element after a deleted one is skipped.
RECURSIVE DelFather(_, _, _)
DelFather(lst, i, father) ==
    IF i > Len(lst) THEN lst
    ELSE IF lst[i] = father
         THEN DelFather(SubSeq(lst, 1, i - 1) \o SubSeq(lst, i + 1, Len(lst)),
                        i + 1, father)
         ELSE DelFather(lst, i + 1, father)

\* The condition of the while loop of remove_redundant_nodes.
RRNCond(H, n) ==
    /\ H.n[n].ancestor # None
    /\ Len(Desc(H, H.n[n].ancestor)) = 1

\* n.length += father.length (None + a number raises TypeError).
RRNAddLength(H, n, father) ==
    IF H.n[n].length = NoLength \/ H.n[father].length = NoLength
    THEN [H |-> H, err |-> "TypeError"]
    ELSE [H |-> [H EXCEPT !.n[n].length = @ + H.n[father].length], err |-> OK]

\* The branch without the deletion of the father.
RRNReattachKeepFather(H, n, father, grandfather) ==
    [add_descendant(H, grandfather, n) EXCEPT !.n[father].ancestor = None]

\* The branch taken when the father has an ancestor.
RRNReattach(H, n, father, grandfather) ==
    LET H1 == SetDesc(H, grandfather, DelFather(Desc(H, grandfather), 1, father))
        H2 == add_descendant(H1, grandfather, n)
    IN  [H2 EXCEPT !.n[father].ancestor = None]

\* The branch taken when the father has no ancestor: self takes n's list
\* (the same list object) and, with preserve_lengths, n's length.
RRNOntoSelf(H, self, n, preserve_lengths) ==
    LET H1 == [H EXCEPT !.n[self].descendants = H.n[n].descendants]
    IN  IF preserve_lengths
        THEN [H1 EXCEPT !.n[self].length = H1.n[n].length]
        ELSE H1

\* One iteration of the body of the while loop of remove_redundant_nodes.
RRNBody(H, self, n, preserve_lengths) ==
    LET father == H.n[n].ancestor
        grandfather == H.n[father].ancestor
        r == IF preserve_lengths THEN RRNAddLength(H, n, father)
             ELSE [H |-> H, err |-> OK]
    IN  IF r.err # OK THEN r
        ELSE IF grandfather # None
             THEN [H |-> RRNReattach(r.H, n, father, grandfather), err |-> OK]
             ELSE [H |-> RRNOntoSelf(r.H, self, n, preserve_lengths), err |-> OK]

(***************************************************************************)
(* Texts.  A text is a sequence of one-character strings; offsets are      *)
(* 0-based as in the source, so s[offset] of the source is At(s, offset).  *)
(***************************************************************************)
At(s, i) == s[i + 1]

\* s[i] raises IndexError exactly when this is false (offsets are >= 0).
InText(s, i) == i < Len(s)

\* s[a:b]
Slice(s, a, b) == SubSeq(s, a + 1, b)

\* str.isspace for the characters of the model
isspace(c) == c \in {" ", "\n", "\t"}

Digits == <<"0", "1", "2", "3", "4", "5", "6", "7", "8", "9">>

\* str.isdigit for the characters of the model
isdigit(c) == c \in Range(Digits)

DigitValue(c) == (CHOOSE i \in 1..Len(Digits) : Digits[i] = c) - 1

\* NewickParser.RESERVED_PUNCTUATION
RESERVED_PUNCTUATION == {":", ";", ",", "(", ")"}

\* str.strip()
RECURSIVE LStrip(_)
LStrip(s) == IF s # <<>> /\ isspace(s[1]) THEN LStrip(Tail(s)) ELSE s

RECURSIVE RStrip(_)
RStrip(s) ==
    IF s # <<>> /\ isspace(s[Len(s)]) THEN RStrip(SubSeq(s, 1, Len(s) - 1)) ELSE s

strip(s) == RStrip(LStrip(s))

(***************************************************************************)
(* Lengths are Python floats.  The model holds a float as the integer      *)
(* number of 10^-FracDigits units, which is exact for every decimal text   *)
(* with at most FracDigits digits after the point.                         *)
(***************************************************************************)
FracDigits == MaxText

RECURSIVE Pow10(_)
Pow10(k) == IF k = 0 THEN 1 ELSE 10 * Pow10(k - 1)

FloatUnit == Pow10(FracDigits)

\* The value of a run of decimal digits.
RECURSIVE DigitsValue(_)
DigitsValue(ds) ==
    IF ds = <<>> THEN 0
    ELSE 10 * DigitsValue(SubSeq(ds, 1, Len(ds) - 1)) + DigitValue(ds[Len(ds)])

\* float(text) for a text of digits with at most one '.': ValueError when
\* the text has no digit, the number otherwise.
float(txt) ==
    LET dots == {i \in 1..Len(txt) : txt[i] = "."}
        dot == IF dots = {} THEN Len(txt) + 1 ELSE CHOOSE i \in dots : TRUE
        ip == SubSeq(txt, 1, dot - 1)
        fp == SubSeq(txt, dot + 1, Len(txt))
    IN  IF ip = <<>> /\ fp = <<>> THEN [value |-> NoLength, err |-> "ValueError"]
        ELSE [value |-> DigitsValue(ip) * FloatUnit
                        + DigitsValue(fp) * Pow10(FracDigits - Len(fp)),
              err |-> OK]

(***************************************************************************)
(* class NewickParser                                                      *)
(***************************************************************************)
\* NewickParser._count_spaces
RECURSIVE _count_spaces(_, _)
_count_spaces(s, offset) ==
    IF InText(s, offset) /\ isspace(At(s, offset))
    THEN 1 + _count_spaces(s, offset + 1)
    ELSE 0

\* The while loop of _parse_name: the characters up to reserved punctuation.
RECURSIVE NameCount(_, _, _)
NameCount(s, offset, count) ==
    IF InText(s, offset + count) /\ At(s, offset + count) \notin RESERVED_PUNCTUATION
    THEN NameCount(s, offset, count + 1)
    ELSE count

\* NewickParser._parse_name: the count of leading spaces is overwritten by
\* 0, the spaces are read as letters and stripped from the name.
_parse_name(s, offset) ==
    LET count == NameCount(s, offset, 0)
        name == strip(Slice(s, offset, offset + count))
    IN  [value |-> name, count |-> count]

\* COMMENT.search(s, pos): the leftmost '[' at or after pos that has a ']'
\* after it, up to the first such ']'; NoText when there is no match.
CommentSearch(s, pos) ==
    LET opens == {i \in pos..(Len(s) - 1) :
                     /\ At(s, i) = "["
                     /\ \E j \in (i + 1)..(Len(s) - 1) : At(s, j) = "]"}
    IN  IF opens = {} THEN NoText
        ELSE LET i == CHOOSE x \in opens : \A y \in opens : x <= y
                 j == CHOOSE x \in (i + 1)..(Len(s) - 1) :
                          /\ At(s, x) = "]"
                          /\ \A y \in (i + 1)..(x - 1) : At(s, y) # "]"
             IN  Slice(s, i, j + 1)

\* NewickParser._parse_comment: the characters counted are the spaces only.
_parse_comment(s, offset) ==
    LET count == _count_spaces(s, offset)
    IN  [value |-> CommentSearch(s, offset + count), count |-> count]

\* The while loop of _parse_length after the ':': digits and at most one '.'.
RECURSIVE LengthLoop(_, _, _, _, _)
LengthLoop(s, offset, count, digits, seenDot) ==
    LET count1 == count + 1
    IN  IF ~InText(s, offset + count1) THEN [digits |-> digits, count |-> count1]
        ELSE LET c == At(s, offset + count1)
             IN  IF isdigit(c)
                 THEN LengthLoop(s, offset, count1, Append(digits, c), seenDot)
                 ELSE IF c = "." /\ ~seenDot
                      THEN LengthLoop(s, offset, count1, Append(digits, c), TRUE)
                      ELSE [digits |-> digits, count |-> count1]

\* NewickParser._parse_length
_parse_length(s, offset) ==
    LET count == _count_spaces(s, offset)
    IN  IF ~InText(s, offset + count)
        THEN [value |-> NoLength, count |-> count, err |-> OK]
        ELSE IF At(s, offset + count) = ":"
             THEN LET r == LengthLoop(s, offset, count, <<>>, FALSE)
                      f == float(r.digits)
                  IN  [value |-> f.value, count |-> r.count, err |-> f.err]
             ELSE [value |-> NoLength, count |-> count, err |-> OK]

\* A parse result carries the heap, the node, the characters consumed, the
\* exception raised (or OK) and `sep`: what the descendants loops found
\* where they looked for ',' or ')' ("ok" when always one of the two,
\* "end" when the text had ended, "other" when it held another character).
Result(H, node, count, e, sep) ==
    [H |-> H, node |-> node, count |-> count, err |-> e, sep |-> sep]

\* The end of _parse_node: node.length, count = _parse_length(...)
ParseLabelLength(s, offset, count, H, node, sep, ln) ==
    IF ln.err # OK THEN Result(H, node, count, ln.err, sep)
    ELSE Result([H EXCEPT !.n[node].length = ln.value], node, count + ln.count,
                OK, sep)

\* node.comment, count = _parse_comment(...), then the length.
ParseLabelComment(s, offset, count, H, node, sep, cm) ==
    ParseLabelLength(s, offset, count + cm.count,
                     [H EXCEPT !.n[node].comment = cm.value], node, sep,
                     _parse_length(s, offset + count + cm.count))

\* node.name, count = _parse_name(...), then the comment and the length.
ParseLabelName(s, offset, count, H, node, sep, nm) ==
    ParseLabelComment(s, offset, count + nm.count,
                      [H EXCEPT !.n[node].name = nm.value], node, sep,
                      _parse_comment(s, offset + count + nm.count))

\* The name, comment and length that _parse_node reads after the descendants.
ParseLabel(s, offset, count, H, node, sep) ==
    ParseLabelName(s, offset, count, H, node, sep, _parse_name(s, offset + count))

RECURSIVE _parse_node(_, _, _)
RECURSIVE _parse(_, _, _)
RECURSIVE ParseDescendants(_, _, _, _, _, _)

\* The end of a pass of the while loop of _parse_node: the character after
\* the child and the spaces is ',' (continue), ')' (break), missing (the
\* IndexError is caught: break) or another one (SyntaxError).
ParseSeparator(s, offset, count, H, node, sep) ==
    IF ~InText(s, offset + count) THEN Result(H, node, count, OK, "end")
    ELSE IF At(s, offset + count) = ","
         THEN ParseDescendants(s, offset, count + 1, H, node, sep)
         ELSE IF At(s, offset + count) = ")"
              THEN Result(H, node, count + 1, OK, sep)
              ELSE Result(H, node, count, "SyntaxError", "other")

\* A pass of the while loop once the child is parsed: an exception of the
\* child propagates, otherwise the child is added and the spaces are counted.
ParseChild(s, offset, count, node, sep, child) ==
    IF child.err # OK
    THEN [child EXCEPT !.sep = IF child.sep = "ok" THEN sep ELSE child.sep]
    ELSE ParseSeparator(
             s, offset,
             count + child.count + _count_spaces(s, offset + count + child.count),
             add_descendant(child.H, node, child.node), node,
             IF child.sep = "ok" THEN sep ELSE child.sep)

\* The while loop of _parse_node over the descendants.
ParseDescendants(s, offset, count, H, node, sep) ==
    ParseChild(s, offset, count, node, sep, _parse(s, offset + count, H))

\* _parse_node after the descendants: the label, unless an exception was raised.
ParseAfterDescendants(s, offset, node, d) ==
    IF d.err # OK THEN d ELSE ParseLabel(s, offset, d.count, d.H, node, d.sep)

\* _parse_node once the spaces are counted and the Node is created:
\* s[offset + count] raises IndexError at the end of the text.
ParseNodeAt(s, offset, count, H, node) ==
    IF ~InText(s, offset + count) THEN Result(H, node, count, "IndexError", "ok")
    ELSE IF At(s, offset + count) = "("
         THEN ParseAfterDescendants(
                  s, offset, node,
                  ParseDescendants(s, offset, count + 1, H, node, "ok"))
         ELSE ParseLabel(s, offset, count, H, node, "ok")

\* Node() as _parse_node calls it, and the new node.
ParseNodeNew(s, offset, H) == ParseNodeAt(s, offset, _count_spaces(s, offset), H, Last(H))

\* NewickParser._parse_node
_parse_node(s, offset, H) == ParseNodeNew(s, offset, Node(H, NoText, NoLength, NoText))

\* NewickParser._parse, which _parse_node and parse call: the rule for a
\* subtree, that is _parse_node.
_parse(s, offset, H) == _parse_node(s, offset, H)

\* The end of parse: after the spaces, the end of the text or ';'.
ParseEnd(s, r, count) ==
    IF r.err # OK THEN r
    ELSE IF ~InText(s, count)
         THEN IF count # Len(s) THEN [r EXCEPT !.err = "ValueError"] ELSE r
         ELSE IF At(s, count) = ";" THEN r
              ELSE [r EXCEPT !.err = "ValueError"]

ParseCount(s, r) == ParseEnd(s, r, r.count + _count_spaces(s, r.count))

\* NewickParser.parse
parse(s, H) == ParseCount(s, _parse(s, 0, H))

\* s.split(';')
RECURSIVE split(_, _)
split(s, cur) ==
    IF s = <<>> THEN <<cur>>
    ELSE IF s[1] = ";" THEN <<cur>> \o split(Tail(s), <<>>)
    ELSE split(Tail(s), Append(cur, s[1]))

\* [ss.strip() for ss in s.split(';') if ss.strip()]
Segments(parts) ==
    SelectSeq([i \in 1..Len(parts) |-> strip(parts[i])], LAMBDA ss : ss # <<>>)

\* The TreeList loads returns: the first exception ends the call and no
\* list is returned.
LoadsResult(trees) ==
    LET bad == {i \in 1..Len(trees) : trees[i].err # OK}
        first == CHOOSE i \in bad : \A j \in bad : i <= j
        seps == {trees[i].sep : i \in 1..(IF bad = {} THEN Len(trees) ELSE first)}
                \ {"ok"}
    IN  [trees |-> IF bad = {} THEN trees ELSE <<>>,
         err |-> IF bad = {} THEN OK ELSE trees[first].err,
         sep |-> IF seps = {} THEN "ok" ELSE CHOOSE x \in seps : TRUE]

LoadsSegments(segs) ==
    LoadsResult([i \in 1..Len(segs) |-> parse(segs[i], EmptyHeap)])

\* NewickParser.loads: every stripped, non-empty segment is parsed into a
\* tree of its own.
loads(s) == LoadsSegments(Segments(split(s, <<>>)))

(***************************************************************************)
(* Serialization: Node.newick and TreeList.dumps                           *)
(***************************************************************************)
\* The decimal digits of a natural number.
RECURSIVE NatText(_)
NatText(k) ==
    IF k < 10 THEN <<Digits[k + 1]>>
    ELSE Append(NatText(k \div 10), Digits[(k % 10) + 1])

\* The digits of k, left-padded with zeros to width w.
RECURSIVE Padded(_, _)
Padded(k, w) == IF w = 0 THEN <<>> ELSE Append(Padded(k \div 10, w - 1), Digits[(k % 10) + 1])

RECURSIVE StripZeros(_)
StripZeros(ds) ==
    IF ds # <<>> /\ ds[Len(ds)] = "0" THEN StripZeros(SubSeq(ds, 1, Len(ds) - 1)) ELSE ds

\* str(x) of a float x: the integer part, '.', and the fraction without
\* trailing zeros ("0" when there is none).
FloatText(v) ==
    LET fp == StripZeros(Padded(v % FloatUnit, FracDigits))
    IN  NatText(v \div FloatUnit) \o <<".">> \o (IF fp = <<>> THEN <<"0">> ELSE fp)

\* Node._length, which Node.newick reads: the text form of the length,
\* None when the length is None.
_length(H, n) ==
    IF H.n[n].length = NoLength THEN NoText ELSE FloatText(H.n[n].length)

\* sep.join(parts)
RECURSIVE join(_, _)
join(sep, parts) ==
    IF parts = <<>> THEN <<>>
    ELSE IF Len(parts) = 1 THEN parts[1]
    ELSE parts[1] \o sep \o join(sep, Tail(parts))

\* The label of Node.newick: the name or '', and ':' and _length if any.
NewickLabel(name, len) ==
    name \o (IF len # NoText THEN <<":">> \o len ELSE <<>>)

\* The descendants of Node.newick, in parentheses unless the text is empty.
NewickDescendants(descendants) ==
    IF descendants # <<>> THEN <<"(">> \o descendants \o <<")">> ELSE <<>>

\* Node.newick
RECURSIVE newick(_, _)
newick(H, n) ==
    NewickDescendants(
        join(<<",">>, [i \in 1..Len(Desc(H, n)) |-> newick(H, Desc(H, n)[i])]))
    \o NewickLabel(H.n[n].name, _length(H, n))

\* TreeList.dumps
dumps(trees) ==
    join(<<";", "\n">>, [i \in 1..Len(trees) |-> newick(trees[i].H, trees[i].node)])
    \o <<";">>

(***************************************************************************)
(* The texts the parser is run on.                                         *)
(***************************************************************************)
Alphabet == {"(", ")", ",", ":", ";", " ", "[", "]", "A", "1", "."}

\* The texts of the specification's examples.
ExampleABC == <<"(", "A", ":", "1", ",", "B", ":", "2", ")", "C", ";">>

ExampleABCD == <<"(", "A", ",", "(", "B", ")", "C", ")", "D", ";">>

ExampleABCDLengths ==
    <<"(", "A", ":", "1", ",", "(", "B", ":", "1", ")", "C", ":", "1", ")", "D", ":", "1", ";">>

\* The examples and some longer texts with comments, lengths and two trees.
Samples ==
    { ExampleABC,
      ExampleABCD,
      <<"(", "A", ",", "B", "[", "x", "]", ")", ";">>,
      <<"A", "[", "x", "]", ":", "1", ";">>,
      <<"(", "A", ":", "1", ".", "5", ",", " ", "B", ")", ";", "\n", "C", ";">> }

Texts == UNION {[1..k -> Alphabet] : k \in 0..MaxText} \cup Samples

(***************************************************************************)
(* The program's state and the calls made on a tree.                       *)
(*   heap   the nodes and lists                                            *)
(*   root   the node held by the caller (None before the tree exists)      *)
(*   pc     "idle" between calls, "rrn" inside remove_redundant_nodes      *)
(*   err    the exception the last call raised, or OK                      *)
(*   op     the last call and its arguments                                *)
(*   pre    the heap when the last call started                            *)
(*   out    the nodes the last walk yielded                                *)
(*   calls  the number of calls made to the tree's methods                 *)
(*   it     inside remove_redundant_nodes: the post-order sequence the     *)
(*          for loop runs over, the position in it, and whether the number *)
(*          of passes the while loop has made for that node is odd         *)
(***************************************************************************)
Letters == <<"A", "B", "C", "D", "E", "F", "G", "H">>

NameOf(i) == IF i <= Len(Letters) THEN <<Letters[i]>> ELSE NoText

NoOp == [name |-> "none", self |-> None, leaves |-> {}, names |-> {},
         inverse |-> FALSE, mode |-> "", preserve_lengths |-> FALSE,
         sep |-> "ok"]

NoIt == [order |-> <<>>, idx |-> 0, pass |-> 0]

NoLoad == [trees |-> <<>>, err |-> OK, sep |-> "ok"]

Nodes(H) == 1..Len(H.n)

TreeInit ==
    /\ heap = EmptyHeap
    /\ root = None
    /\ pc = "idle"
    /\ err = OK
    /\ op = NoOp
    /\ pre = EmptyHeap
    /\ out = <<>>
    /\ calls = 0
    /\ it = NoIt
    /\ text = <<>>
    /\ forest = <<>>
    /\ dumped = <<>>
    /\ again = NoLoad

\* The nodes from the root down along the last descendants.
RECURSIVE RightmostPath(_, _)
RightmostPath(H, n) ==
    IF is_leaf(H, n) THEN {n}
    ELSE {n} \cup RightmostPath(H, Desc(H, n)[Len(Desc(H, n))])

\* root = Node(name, length)
NewRoot(lengths) ==
    /\ root = None
    /\ \E len \in lengths :
          heap' = Node(heap, NameOf(Len(heap.n) + 1), len, NoText)
    /\ root' = Last(heap')
    /\ UNCHANGED <<pc, err, op, pre, out, calls, it, parseVars>>

\* p.add_descendant(Node(name, length)), the tree built in pre-order (the
\* order in which the parser creates nodes).
AddLeaf(lengths) ==
    /\ root # None
    /\ calls = 0
    /\ Len(heap.n) < MaxNodes
    /\ \E p \in RightmostPath(heap, root), len \in lengths :
          LET H1 == Node(heap, NameOf(Len(heap.n) + 1), len, NoText)
          IN  heap' = add_descendant(H1, p, Last(H1))
    /\ UNCHANGED <<root, pc, err, op, pre, out, calls, it, parseVars>>

\* root = loads(text)[0] for one of the examples: the tree of the text.
LoadText(texts) ==
    /\ root = None
    /\ \E s \in texts :
          \E r \in {loads(s)} :
             /\ r.err = OK
             /\ r.trees # <<>>
             /\ heap' = r.trees[1].H
             /\ root' = r.trees[1].node
             /\ text' = s
    /\ UNCHANGED <<pc, err, op, pre, out, calls, it, forest, dumped, again>>

CanCall(limit) ==
    /\ root # None
    /\ pc = "idle"
    /\ err = OK
    /\ calls < limit

\* list(n.walk(mode)) on a node of the tree
Walk(limit) ==
    /\ CanCall(limit)
    /\ \E n \in Range(walk(heap, root)), mode \in {"default", "postorder"} :
          /\ out' = walk_mode(heap, n, mode)
          /\ op' = [NoOp EXCEPT !.name = "walk", !.self = n, !.mode = mode]
    /\ pre' = heap
    /\ calls' = calls + 1
    /\ UNCHANGED <<heap, root, pc, err, it, parseVars>>

\* root.prune(leaves, inverse)
Prune(limit) ==
    /\ CanCall(limit)
    /\ \E leaves \in SUBSET Nodes(heap), inverse \in BOOLEAN :
          LET r == prune(heap, root, leaves, inverse)
          IN  /\ heap' = r.H
              /\ err' = r.err
              /\ op' = [NoOp EXCEPT !.name = "prune", !.self = root,
                                    !.leaves = leaves, !.inverse = inverse]
    /\ pre' = heap
    /\ calls' = calls + 1
    /\ UNCHANGED <<root, pc, out, it, parseVars>>

\* root.prune_by_names(leaf_names, inverse)
PruneByNames(limit, names) ==
    /\ CanCall(limit)
    /\ \E leaf_names \in SUBSET names, inverse \in BOOLEAN :
          LET r == prune_by_names(heap, root, leaf_names, inverse)
          IN  /\ heap' = r.H
              /\ err' = r.err
              /\ op' = [NoOp EXCEPT !.name = "prune_by_names", !.self = root,
                                    !.names = leaf_names, !.inverse = inverse]
    /\ pre' = heap
    /\ calls' = calls + 1
    /\ UNCHANGED <<root, pc, out, it, parseVars>>

\* root.resolve_polytomies()
ResolvePolytomies(limit) ==
    /\ CanCall(limit)
    /\ heap' = resolve_polytomies(heap, root)
    /\ op' = [NoOp EXCEPT !.name = "resolve_polytomies", !.self = root]
    /\ pre' = heap
    /\ calls' = calls + 1
    /\ UNCHANGED <<root, pc, err, out, it, parseVars>>

\* root.remove_redundant_nodes(preserve_lengths): the call starts the
\* post-order generator, which fixes the sequence the for loop runs over.
RemoveRedundantNodes(limit) ==
    /\ CanCall(limit)
    /\ \E preserve_lengths \in BOOLEAN :
          op' = [NoOp EXCEPT !.name = "remove_redundant_nodes", !.self = root,
                             !.preserve_lengths = preserve_lengths]
    /\ it' = [order |-> _postorder(heap, root), idx |-> 1, pass |-> 0]
    /\ pc' = "rrn"
    /\ pre' = heap
    /\ calls' = calls + 1
    /\ UNCHANGED <<heap, root, err, out, parseVars>>

\* n.remove_redundant_nodes(preserve_lengths) on any node n of the tree, the
\* root or another.
RemoveRedundantNodesOn(limit) ==
    /\ CanCall(limit)
    /\ \E self \in Range(walk(heap, root)), preserve_lengths \in BOOLEAN :
          /\ op' = [NoOp EXCEPT !.name = "remove_redundant_nodes", !.self = self,
                                !.preserve_lengths = preserve_lengths]
          /\ it' = [order |-> _postorder(heap, self), idx |-> 1, pass |-> 0]
    /\ pc' = "rrn"
    /\ pre' = heap
    /\ calls' = calls + 1
    /\ UNCHANGED <<heap, root, err, out, parseVars>>

\* One pass of the while loop for the current n.
RRNWhile ==
    /\ pc = "rrn"
    /\ it.idx <= Len(it.order)
    /\ RRNCond(heap, it.order[it.idx])
    /\ LET n == it.order[it.idx]
           r == RRNBody(heap, op.self, n, op.preserve_lengths)
       IN  /\ \A x \in Nodes(r.H) : r.H.n[x].length <= MaxLength * FloatUnit
           /\ heap' = r.H
           /\ err' = r.err
           /\ pc' = IF r.err = OK THEN "rrn" ELSE "idle"
    /\ it' = [it EXCEPT !.pass = 1 - @]
    /\ UNCHANGED <<root, op, pre, out, calls, parseVars>>

\* The while condition is false: the for loop takes the next node.
RRNNext ==
    /\ pc = "rrn"
    /\ it.idx <= Len(it.order)
    /\ ~RRNCond(heap, it.order[it.idx])
    /\ it' = [it EXCEPT !.idx = @ + 1, !.pass = 0]
    /\ UNCHANGED <<heap, root, pc, err, op, pre, out, calls, parseVars>>

\* The for loop is exhausted: remove_redundant_nodes returns.
RRNReturn ==
    /\ pc = "rrn"
    /\ it.idx > Len(it.order)
    /\ pc' = "idle"
    /\ it' = NoIt
    /\ UNCHANGED <<heap, root, err, op, pre, out, calls, parseVars>>

(***************************************************************************)
(* Spec: a tree is built, then one of walk, prune and resolve_polytomies   *)
(* is called on it.                                                        *)
(***************************************************************************)
BuildPlain == NewRoot({NoLength}) \/ AddLeaf({NoLength})

Next ==
    \/ BuildPlain
    \/ Walk(1)
    \/ Prune(1)
    \/ ResolvePolytomies(1)

Spec == TreeInit /\ [][Next]_vars

(***************************************************************************)
(* SpecRRN: a tree is built, with or without lengths, or parsed from an    *)
(* example text, then remove_redundant_nodes is called on its root.        *)
(***************************************************************************)
BuildLengths == NewRoot({NoLength, FloatUnit}) \/ AddLeaf({NoLength, FloatUnit})

NextRRN ==
    \/ BuildLengths
    \/ LoadText({ExampleABCD, ExampleABCDLengths})
    \/ RemoveRedundantNodes(1)
    \/ RRNWhile
    \/ RRNNext
    \/ RRNReturn

SpecRRN == TreeInit /\ [][NextRRN]_vars

(***************************************************************************)
(* SpecParse: a text is loaded, the forest is dumped, and the dumped text  *)
(* is loaded again.                                                        *)
(***************************************************************************)
ParseInit ==
    /\ heap = EmptyHeap
    /\ root = None
    /\ pc = "idle"
    /\ err = OK
    /\ op = NoOp
    /\ pre = EmptyHeap
    /\ out = <<>>
    /\ calls = 0
    /\ it = NoIt
    /\ text \in Texts
    /\ forest = <<>>
    /\ dumped = <<>>
    /\ again = NoLoad

\* forest = loads(text)
Loads ==
    /\ op.name = "none"
    /\ \E r \in {loads(text)} :
          /\ forest' = r.trees
          /\ err' = r.err
          /\ op' = [NoOp EXCEPT !.name = "loads", !.sep = r.sep]
    /\ calls' = calls + 1
    /\ UNCHANGED <<heap, root, pc, pre, out, it, text, dumped, again>>

\* dumped = forest.dumps()
Dumps ==
    /\ op.name = "loads"
    /\ err = OK
    /\ dumped' = dumps(forest)
    /\ op' = [op EXCEPT !.name = "dumps"]
    /\ calls' = calls + 1
    /\ UNCHANGED <<heap, root, pc, err, pre, out, it, text, forest, again>>

\* again = loads(dumped)
Reload ==
    /\ op.name = "dumps"
    /\ again' = loads(dumped)
    /\ op' = [op EXCEPT !.name = "reload"]
    /\ calls' = calls + 1
    /\ UNCHANGED <<heap, root, pc, err, pre, out, it, text, forest, dumped>>

NextParse == Loads \/ Dumps \/ Reload

SpecParse == ParseInit /\ [][NextParse]_vars

(***************************************************************************)
(* SpecSeq: a tree is built or parsed, then up to MaxCalls calls of prune, *)
(* prune_by_names, resolve_polytomies and remove_redundant_nodes are made  *)
(* on its root.                                                            *)
(***************************************************************************)
BuildSeq == NewRoot({FloatUnit}) \/ AddLeaf({FloatUnit})

NextSeq ==
    \/ BuildSeq
    \/ LoadText({ExampleABCDLengths})
    \/ Prune(MaxCalls)
    \/ PruneByNames(MaxCalls, {<<"A">>, <<"B">>, <<"C">>})
    \/ ResolvePolytomies(MaxCalls)
    \/ RemoveRedundantNodes(MaxCalls)
    \/ RRNWhile
    \/ RRNNext
    \/ RRNReturn

SpecSeq == TreeInit /\ [][NextSeq]_vars

(***************************************************************************)
(* SpecTerm: a tree is built with the length 0.0 on every node, then       *)
(* remove_redundant_nodes is called on one of its nodes.  A call that has  *)
(* started keeps running: the for loop and the while loop take their next  *)
(* step whenever they have one.                                            *)
(***************************************************************************)
BuildZero == NewRoot({0}) \/ AddLeaf({0})

NextTerm ==
    \/ BuildZero
    \/ RemoveRedundantNodesOn(1)
    \/ RRNWhile
    \/ RRNNext
    \/ RRNReturn

SpecTerm ==
    /\ TreeInit
    /\ [][NextTerm]_vars
    /\ WF_vars(RRNWhile)
    /\ WF_vars(RRNNext)
    /\ WF_vars(RRNReturn)

(***************************************************************************)
(* Properties.                                                             *)
(***************************************************************************)
\* The nodes in the descendants list of n.
Children(H, n) == Range(Desc(H, n))

\* The nodes reachable from n through descendants lists, n included.
RECURSIVE Reach(_, _)
Reach(H, S) ==
    LET T == S \cup UNION {Children(H, x) : x \in S}
    IN  IF T = S THEN S ELSE Reach(H, T)

Subtree(H, n) == Reach(H, {n})

Below(H, n) == Subtree(H, n) \ {n}

Leaves(H, n) == {x \in Subtree(H, n) : is_leaf(H, x)}

\* The number of times x occurs in lst.
Occurrences(lst, x) == Cardinality({i \in 1..Len(lst) : lst[i] = x})

Called(name) == op.name = name /\ pc = "idle"

\* C2: walk() in the default mode and walk(mode='postorder') each yield
\* every node of the subtree of the node they are called on exactly once and
\* no other node, and in post-order a node is yielded after all the nodes
\* below it.
C2_WalkYieldsEachNodeOnce ==
    Called("walk") =>
        /\ Range(out) = Subtree(heap, op.self)
        /\ \A i, j \in 1..Len(out) : out[i] = out[j] => i = j
        /\ op.mode = "postorder" =>
              \A i, j \in 1..Len(out) :
                 out[j] \in Below(heap, out[i]) => j < i

\* A post-order walk from a node other than the root over a subtree of
\* three levels.
C2_Witness ==
    /\ Called("walk")
    /\ op.mode = "postorder"
    /\ op.self # root
    /\ \E x \in Children(heap, op.self) : ~is_leaf(heap, x)

\* C3: prune called on the root raises no exception and leaves the root the
\* root: it has no ancestor and is in no descendants list, whatever the
\* target set and the value of inverse.
C3_PruneKeepsRoot ==
    Called("prune") =>
        /\ err = OK
        /\ heap.n[root].ancestor = None
        /\ \A x \in Nodes(heap) : root \notin Children(heap, x)
        /\ root \in Subtree(heap, root)

\* prune with the root in the target set of a tree that has other nodes.
C3_Witness ==
    /\ Called("prune")
    /\ ~op.inverse
    /\ root \in op.leaves
    /\ Len(pre.n) >= 3
    /\ op.leaves \cap Below(pre, root) # {}

\* C4 as claimed: after prune(targetSet) with inverse=false the leaves are
\* the leaves of the tree before the call minus those in targetSet.
C4_PruneLeavesAsClaimed ==
    (Called("prune") /\ ~op.inverse) =>
        Range(get_leaves(heap, root)) = Range(get_leaves(pre, root)) \ op.leaves

\* The nodes prune removes: the nodes other than the root that are in the
\* target set or below such a node.
Pruned(H, r, targets) ==
    UNION {Subtree(H, x) : x \in (targets \cap Below(H, r))}

\* C4 amended: after prune(targetSet) with inverse=false the leaves are the
\* leaves of the tree before the call that were not removed (they are not in
\* targetSet nor below a node of targetSet; the root is never removed),
\* together with the nodes that were kept and lost all their descendants
\* (each was in targetSet).
C4_PruneLeavesAmended ==
    (Called("prune") /\ ~op.inverse) =>
        LET gone == Pruned(pre, root, op.leaves)
            kept == Subtree(pre, root) \ gone
        IN  /\ err = OK
            /\ Subtree(heap, root) = kept
            /\ Range(get_leaves(heap, root)) =
                  (Leaves(pre, root) \ gone)
                  \cup {x \in kept : /\ ~is_leaf(pre, x)
                                     /\ Children(pre, x) \subseteq op.leaves}

\* prune of a set with an inner node and all the descendants of a kept node.
C4_Witness ==
    /\ Called("prune")
    /\ ~op.inverse
    /\ \E x \in op.leaves \cap Below(pre, root) : ~is_leaf(pre, x)
    /\ \E x \in Subtree(heap, root) : is_leaf(heap, x) /\ ~is_leaf(pre, x)

\* C5: after resolve_polytomies on the root no node of the tree has more
\* than 2 descendants; every node that had more than 2 and every node the
\* call created has exactly 2.
C5_ResolveLeavesNoPolytomy ==
    Called("resolve_polytomies") =>
        \A x \in Subtree(heap, root) :
           /\ Len(Desc(heap, x)) <= 2
           /\ (x \notin Nodes(pre) \/ Len(Desc(pre, x)) > 2)
                 => Len(Desc(heap, x)) = 2

\* A node with four descendants: the call creates two nodes, the second
\* under the first.
C5_Witness ==
    /\ Called("resolve_polytomies")
    /\ Len(heap.n) >= Len(pre.n) + 2
    /\ \A x \in Nodes(heap) \ Nodes(pre) : x \in Subtree(heap, root)

AllLengths(H) == \A x \in Nodes(H) : H.n[x].length # NoLength

\* C6: remove_redundant_nodes on the root of a tree whose nodes all have a
\* length returns without an exception, for either value of
\* preserve_lengths, and then no node of the tree other than the root has
\* exactly 1 descendant.
C6_RemoveRedundantLeavesNoSingle ==
    (Called("remove_redundant_nodes") /\ AllLengths(pre)) =>
        /\ err = OK
        /\ \A x \in Below(heap, root) : Len(Desc(heap, x)) # 1

\* A tree with a node with one descendant, under a node that is not the
\* root, collapsed with the lengths added.
C6_Witness ==
    /\ Called("remove_redundant_nodes")
    /\ AllLengths(pre)
    /\ op.preserve_lengths
    /\ \E x \in Below(pre, root) :
          /\ Len(Desc(pre, x)) = 1
          /\ pre.n[x].ancestor # root
          /\ x \notin Subtree(heap, root)

\* C7 as claimed: remove_redundant_nodes(preserve_lengths=True) returns
\* without an exception on any tree with a node with one descendant,
\* lengths given or not; on the tree of "(A,(B)C)D;" it leaves A and B under D.
C7_RemoveRedundantCompletes ==
    (/\ Called("remove_redundant_nodes")
     /\ op.preserve_lengths
     /\ \E x \in Subtree(pre, root) : Len(Desc(pre, x)) = 1) =>
        /\ err = OK
        /\ text = ExampleABCD =>
              newick(heap, root) = <<"(", "A", ",", "B", ")", "D">>

\* Two trees with the same shape, the same order of the descendants and the
\* same names, lengths and comments.
RECURSIVE SameTree(_, _, _, _)
SameTree(H1, n1, H2, n2) ==
    /\ H1.n[n1].name = H2.n[n2].name
    /\ H1.n[n1].length = H2.n[n2].length
    /\ H1.n[n1].comment = H2.n[n2].comment
    /\ Len(Desc(H1, n1)) = Len(Desc(H2, n2))
    /\ \A i \in 1..Len(Desc(H1, n1)) :
          SameTree(H1, Desc(H1, n1)[i], H2, Desc(H2, n2)[i])

\* C1 as claimed: a forest loaded from a text is dumped and the dumped text
\* loads into as many trees, in the same order, each the same as the tree
\* it was dumped from; "(A:1,B:2)C;" loads as C with the descendants A of
\* length 1 and B of length 2.  (That the example is dumped as the very text
\* "(A:1,B:2)C;" rests on the text form of a float in Node._length alone,
\* and is left out of the formula.)
C1_RoundTrip ==
    op.name = "reload" =>
        /\ again.err = OK
        /\ Len(again.trees) = Len(forest)
        /\ \A i \in 1..Len(forest) :
              i <= Len(again.trees) =>
                 SameTree(forest[i].H, forest[i].node,
                          again.trees[i].H, again.trees[i].node)
        /\ text = ExampleABC =>
              /\ Len(forest) = 1
              /\ LET H == forest[1].H
                     c == forest[1].node
                 IN  /\ H.n[c].name = <<"C">>
                     /\ Len(Desc(H, c)) = 2
                     /\ H.n[Desc(H, c)[1]].name = <<"A">>
                     /\ H.n[Desc(H, c)[1]].length = FloatUnit
                     /\ H.n[Desc(H, c)[2]].name = <<"B">>
                     /\ H.n[Desc(H, c)[2]].length = 2 * FloatUnit

\* C8 as claimed: when a descendants loop finds neither ',' nor ')' after a
\* descendant and the spaces, whether a character or the end of the text,
\* the call raises SyntaxError and returns no tree.
C8_MissingSeparatorFails ==
    (op.name = "loads" /\ op.sep # "ok") =>
        /\ err = "SyntaxError"
        /\ forest = <<>>

\* The texts name '[' ... ']' with an optional ':' and digits after it, and
\* the place of the '[' and of the ']' in them.
CommentOpen(s) == CHOOSE i \in 1..Len(s) : s[i] = "[" /\ \A k \in 1..(i - 1) : s[k] # "["

CommentClose(s) == CHOOSE j \in 1..Len(s) : s[j] = "]" /\ \A k \in 1..(j - 1) : s[k] # "]"

IsNameCommentText(s) ==
    /\ "[" \in Range(s)
    /\ "]" \in Range(s)
    /\ CommentOpen(s) < CommentClose(s)
    /\ \A k \in 1..CommentClose(s) : s[k] \notin RESERVED_PUNCTUATION
    /\ LET rest == SubSeq(s, CommentClose(s) + 1, Len(s))
       IN  \/ rest = <<>>
           \/ /\ Len(rest) >= 2
              /\ rest[1] = ":"
              /\ \A k \in 2..Len(rest) : isdigit(rest[k])

\* C9 as claimed: for a text name '[' ... ']' with an optional ':length' the
\* node's name is the stripped text before the '[', its comment is the
\* bracketed text, and _parse_comment counts the comment's characters; and a
\* node whose own text has no '[' has no comment.
C9_CommentParsed ==
    op.name = "loads" =>
        /\ IsNameCommentText(text) =>
              /\ err = OK
              /\ Len(forest) = 1
              /\ LET node == forest[1].H.n[forest[1].node]
                     i == CommentOpen(text)
                     j == CommentClose(text)
                 IN  /\ node.name = strip(SubSeq(text, 1, i - 1))
                     /\ node.comment = SubSeq(text, i, j)
                     /\ _parse_comment(text, i - 1).count = j - i + 1
        /\ \A t \in 1..Len(forest) :
              \A x \in Nodes(forest[t].H) :
                 "[" \notin Range(forest[t].H.n[x].name)
                    => forest[t].H.n[x].comment = NoText

\* C10 as claimed: after any calls of prune, prune_by_names,
\* resolve_polytomies and remove_redundant_nodes on the root of a built or
\* parsed tree, the root has no ancestor and every other node of the tree
\* has an ancestor, which is the one node of the tree whose descendants
\* list holds it, and holds it once.
C10_AncestorsMatchDescendants ==
    (pc = "idle" /\ root # None /\ err = OK) =>
        /\ heap.n[root].ancestor = None
        /\ \A x \in Below(heap, root) :
              /\ heap.n[x].ancestor # None
              /\ \A p \in Subtree(heap, root) :
                    x \in Children(heap, p) =>
                       /\ heap.n[x].ancestor = p
                       /\ Occurrences(Desc(heap, p), x) = 1

\* The elements of seq that are in S, in the order they have in seq.
Restrict(seq, S) == SelectSeq(seq, LAMBDA x : x \in S)

\* C11 as claimed: when remove_redundant_nodes on the root has returned, the
\* nodes that remain in the tree are, from left to right (the order walk()
\* yields them in), in the order they had before the call: a node put under
\* its grandfather takes the place of the father that was removed.
C11_RemoveRedundantKeepsOrder ==
    (Called("remove_redundant_nodes") /\ err = OK) =>
        walk(heap, root) = Restrict(walk(pre, root), Subtree(heap, root))

\* C12 as claimed: a call of remove_redundant_nodes on a node of a tree
\* with a length on every node, the root or another node, with either value
\* of preserve_lengths, returns: its while loop always exits.
C12_RemoveRedundantTerminates ==
    (pc = "rrn" /\ AllLengths(pre)) ~> (pc = "idle")

====
